---------------------------- MODULE Spec2Model ----------------------------
(***************************************************************************)
(* A model of ovirt-guest-agent/GuestAgentLinux2.py: the memory statistics *)
(* sampler of LinuxDataRetriver (getMemoryStats, _get_meminfo,             *)
(* _get_vmstat), NicMgr.ethtool_list_nics, PkgMgr.apt_list_packages, the   *)
(* commands of CommandHandlerLinux and the query accessors of              *)
(* LinuxDataRetriver.                                                      *)
(*                                                                         *)
(* time.time() returns a float number of seconds.  The model reads the     *)
(* clock in whole ticks, TicksPerSecond ticks to the second, so that an    *)
(* interval need not be a whole number of seconds.  The rounding error of  *)
(* the float division itself is not modelled.                              *)
(***************************************************************************)
EXTENDS Integers, Sequences, FiniteSets, TLC

\* ------------------------------------------------------------------ bounds
MaxTime == 2
MaxCounter == 1
MaxCalls == 3
TicksPerSecond == 1

\* ----------------------------------------------------------------- helpers
\* An optional value (Python's None or a value): <<>> or <<v>>.
None == <<>>
Some(v) == <<v>>
Val(o) == o[1]

\* Python's int() of a float quotient a / b (b # 0) truncates toward zero.
TruncDiv(a, b) ==
    LET q == (IF a < 0 THEN -a ELSE a) \div (IF b < 0 THEN -b ELSE b)
    IN  IF (a < 0) = (b < 0) THEN q ELSE -q

\* ------------------------------------------------- /proc pseudo-file inputs
\* A line of a key/value pseudo-file, as line.strip().split()[0:2] sees it:
\* the number of whitespace-separated tokens, the first token, and the
\* integer the second token denotes (None when int() would reject it).
Line(k, v) == [ntok |-> 2, key |-> k, value |-> Some(v)]
ShortLine == [ntok |-> 1, key |-> "garbage", value |-> None]
NonNumericLine(k) == [ntok |-> 2, key |-> k, value |-> None]

\* A file: whether open() succeeds, and its lines.
File(ls) == [readable |-> TRUE, lines |-> ls]
Unreadable == [readable |-> FALSE, lines |-> <<>>]

\* The four tracked counters, in the order /proc/vmstat lists them.
VmKeys == <<"pgfault", "pgmajfault", "pswpin", "pswpout">>
Fields == {"swap_in", "swap_out", "pageflt", "majflt"}
fields(key) ==
    CASE key = "pswpin" -> "swap_in"
      [] key = "pswpout" -> "swap_out"
      [] key = "pgfault" -> "pageflt"
      [] key = "pgmajfault" -> "majflt"
IsVmKey(key) == key \in {"pswpin", "pswpout", "pgfault", "pgmajfault"}

MemKeys == {"MemTotal:", "MemFree:", "Buffers:", "Cached:", "SwapFree:",
            "SwapTotal:"}
FreeKeys == {"MemFree:", "Buffers:", "Cached:"}

StaticStats == {"mem_total", "mem_unused", "mem_free", "mem_buffers",
                "mem_cached", "swap_usage", "swap_total"}
StatKeys == StaticStats \cup Fields

\* /proc/vmstat at activity level k: an untracked line, then the four tracked
\* counters, each with a value of its own (major faults are a part of the
\* faults, and each level swaps two pages in for one out).
VmstatLines(k) ==
    <<Line("nr_free_pages", 7), Line("pgfault", 3 * k),
      Line("pgmajfault", k), Line("pswpin", 2 * k), Line("pswpout", k)>>

\* s with x put in before its element p.
InsertAt(s, p, x) == SubSeq(s, 1, p - 1) \o <<x>> \o SubSeq(s, p, Len(s))

\* The /proc/vmstat a call may find: whole, at every activity level; or, at
\* the highest level, with a line of one token before the first or the third
\* tracked counter, or with a value that is no integer; or not to be opened.
VmstatFiles ==
    LET good == {VmstatLines(k) : k \in 0..MaxCounter}
        busy == VmstatLines(MaxCounter)
    IN  {File(ls) : ls \in good}
        \cup {File(InsertAt(busy, p, ShortLine)) : p \in {2, 4}}
        \cup {File([busy EXCEPT ![3] = NonNumericLine("pgmajfault")])}
        \cup {Unreadable}

MeminfoLines(m) ==
    <<Line("MemTotal:", 8), Line("MemFree:", m), Line("MemAvailable:", 5),
      Line("Buffers:", 1), Line("Cached:", 2), Line("SwapTotal:", 4),
      Line("SwapFree:", 4 - m)>>

\* The /proc/meminfo a call may find: whole; with a line of one token; or not
\* to be opened.
MeminfoFiles ==
    {File(MeminfoLines(m)) : m \in {0, 1}}
    \cup {File(InsertAt(MeminfoLines(0), 3, ShortLine)), Unreadable}

\* The values of the tracked counters in a file that holds them all.
Counters(file) ==
    [f \in Fields |->
       LET i == CHOOSE i \in 1..Len(file.lines) :
                  /\ IsVmKey(file.lines[i].key)
                  /\ fields(file.lines[i].key) = f
       IN  Val(file.lines[i].value)]

Times == 0..MaxTime

\* ------------------------------------------------------------------- state
VARIABLES
    vmstat,     \* self.vmstat: timestamp_prev, timestamp_cur, <field>_prev/_cur
    memStats,   \* self.memStats, which getMemoryStats returns
    outcome,    \* how the latest getMemoryStats call went
    opened,     \* whether some call has opened /proc/vmstat
    readAt,     \* per counter, the clock reading at which <field>_cur was read
    lastGood,   \* the snapshot returned by the latest call that read both files
    calls       \* the number of getMemoryStats calls made

memvars == <<vmstat, memStats, outcome, opened, readAt, lastGood, calls>>

\* DataRetriverBase.__init__ creates memStats; it starts all-zero.
InitMemStats == [k \in StatKeys |-> 0]

\* _init_vmstat at clock reading t.
_init_vmstat(t) ==
    [timestamp_prev |-> Some(t), timestamp_cur |-> None,
     prev |-> [f \in Fields |-> None], cur |-> [f \in Fields |-> None]]

\* ----------------------------------------------------------- _get_meminfo
\* The loop of _get_meminfo over the lines from i on: acc is
\* [err, fields, free].
RECURSIVE MeminfoLoop(_, _, _)
MeminfoLoop(ls, i, acc) ==
    IF i > Len(ls) THEN acc
    ELSE LET l == ls[i] IN
         IF l.ntok < 2 THEN [acc EXCEPT !.err = "parse"]
         ELSE IF l.key \in MemKeys \cup FreeKeys /\ l.value = None
              THEN [acc EXCEPT !.err = "parse"]
         ELSE MeminfoLoop(ls, i + 1,
                [err |-> "ok",
                 fields |-> IF l.key \in MemKeys
                            THEN [acc.fields EXCEPT ![l.key] = Val(l.value)]
                            ELSE acc.fields,
                 free |-> IF l.key \in FreeKeys
                          THEN acc.free + Val(l.value)
                          ELSE acc.free])

\* _get_meminfo: [err, memStats]; err is "ok", "open" or "parse".
_get_meminfo(file, ms) ==
    IF ~file.readable THEN [err |-> "open", memStats |-> ms]
    ELSE LET r == MeminfoLoop(file.lines, 1,
                    [err |-> "ok", fields |-> [k \in MemKeys |-> 0],
                     free |-> 0])
         IN  IF r.err # "ok" THEN [err |-> r.err, memStats |-> ms]
             ELSE [err |-> "ok",
                   memStats |->
                     [k \in StatKeys |->
                        CASE k = "mem_total" -> r.fields["MemTotal:"]
                          [] k = "mem_unused" -> r.fields["MemFree:"]
                          [] k = "mem_free" -> r.free
                          [] k = "mem_buffers" -> r.fields["Buffers:"]
                          [] k = "mem_cached" -> r.fields["Cached:"]
                          [] k = "swap_usage" ->
                               r.fields["SwapTotal:"] - r.fields["SwapFree:"]
                          [] k = "swap_total" -> r.fields["SwapTotal:"]
                          [] OTHER -> ms[k]]]

\* ------------------------------------------------------------ _get_vmstat
\* A bootstrap that takes an unset predecessor for 0.
BootstrapZero(prevv, curv) == IF prevv = None THEN Some(0) ELSE prevv

\* Lines 327-328: the first value of a counter is its own predecessor.
Bootstrap(prevv, curv) == IF prevv = None THEN curv ELSE prevv

\* A rate rounded to the nearest integer, as round() in place of int().
RateRounded(curv, prevv, interval) ==
    TruncDiv(2 * (curv - prevv) * TicksPerSecond + interval, 2 * interval)

\* Lines 329-331: int((cur - prev) / interval), interval in ticks, # 0.
Rate(curv, prevv, interval) ==
    TruncDiv((curv - prevv) * TicksPerSecond, interval)

\* Lines 317-319: the clock is read and stored before the file is opened.
Stamp(vm, t) ==
    [vm EXCEPT !.timestamp_cur = Some(t), !.timestamp_prev = Some(t)]

\* The loop of _get_vmstat over the lines from i on: acc is
\* [err, vmstat, memStats, stored]; stored is the set of counters whose
\* value the call has put in <field>_cur.
RECURSIVE VmstatLoop(_, _, _, _)
VmstatLoop(ls, i, interval, acc) ==
    IF i > Len(ls) THEN acc
    ELSE LET l == ls[i] IN
         IF l.ntok < 2 THEN [acc EXCEPT !.err = "parse"]
         ELSE IF ~IsVmKey(l.key) THEN VmstatLoop(ls, i + 1, interval, acc)
         ELSE IF l.value = None
              THEN [acc EXCEPT !.err = "parse",
                               !.vmstat.prev[fields(l.key)] =
                                   acc.vmstat.cur[fields(l.key)]]
         ELSE LET name == fields(l.key)
                  p == Bootstrap(acc.vmstat.cur[name], l.value)
                  vm == [acc.vmstat EXCEPT !.prev[name] = p,
                                           !.cur[name] = l.value]
              IN  IF interval = 0
                  THEN [acc EXCEPT !.err = "zerodiv", !.vmstat = vm,
                                   !.stored = acc.stored \cup {name}]
                  ELSE VmstatLoop(ls, i + 1, interval,
                         [err |-> "ok", vmstat |-> vm,
                          memStats |->
                            [acc.memStats EXCEPT
                               ![name] = Rate(Val(l.value), Val(p), interval)],
                          stored |-> acc.stored \cup {name}])

\* _get_vmstat at clock reading t: [err, vmstat, memStats, stored].
_get_vmstat(file, t, vm, ms) ==
    LET interval == t - Val(vm.timestamp_prev)
        vm1 == Stamp(vm, t)
    IN  IF ~file.readable
        THEN [err |-> "open", vmstat |-> vm1, memStats |-> ms, stored |-> {}]
        ELSE VmstatLoop(file.lines, 1, interval,
               [err |-> "ok", vmstat |-> vm1, memStats |-> ms, stored |-> {}])

\* --------------------------------------------------------- getMemoryStats
\* getMemoryStats with /proc/meminfo as found and, when _get_meminfo returns,
\* the clock reading t and /proc/vmstat as found.  The value returned is
\* self.memStats as the call leaves it.  outcome records the call: how each
\* file went, the clock reading, the counters whose value was stored, the
\* counter values of a sample that succeeded, whether this was the first
\* call to open /proc/vmstat.
getMemoryStats(meminfo) ==
    \E m \in {_get_meminfo(meminfo, memStats)} :
      IF m.err # "ok"
      THEN /\ UNCHANGED <<vmstat, memStats, opened>>
           /\ outcome' = [meminfo |-> m.err, vmstat |-> "skipped",
                          t |-> None, stored |-> {}, sample |-> None,
                          first |-> FALSE]
      ELSE \E t \in Times, vmfile \in VmstatFiles :
           \E v \in {_get_vmstat(vmfile, t, vmstat, m.memStats)} :
             /\ vmstat' = v.vmstat
             /\ memStats' = v.memStats
             /\ opened' = (opened \/ v.err # "open")
             /\ outcome' = [meminfo |-> "ok", vmstat |-> v.err,
                            t |-> Some(t), stored |-> v.stored,
                            sample |-> IF v.err = "ok"
                                       THEN Some(Counters(vmfile)) ELSE None,
                            first |-> v.err # "open" /\ ~opened]

GetMemoryStats ==
    /\ calls < MaxCalls
    /\ calls' = calls + 1
    /\ \E meminfo \in MeminfoFiles : getMemoryStats(meminfo)
    /\ readAt' = [f \in Fields |->
                    IF f \in outcome'.stored THEN outcome'.t ELSE readAt[f]]
    /\ lastGood' = IF outcome'.meminfo = "ok" /\ outcome'.vmstat = "ok"
                   THEN memStats' ELSE lastGood

\* LinuxDataRetriver.__init__ at clock reading t.
InitMem ==
    /\ \E t \in Times :
          /\ vmstat = _init_vmstat(t)
          /\ outcome = [meminfo |-> "none", vmstat |-> "none", t |-> Some(t),
                        stored |-> {}, sample |-> None, first |-> FALSE]
    /\ memStats = InitMemStats
    /\ opened = FALSE
    /\ readAt = [f \in Fields |-> None]
    /\ lastGood = InitMemStats
    /\ calls = 0

\* ------------------------------------------------------------------ NicMgr
MaxDevs == 3

\* ethtool.IFF_UP and ethtool.IFF_LOOPBACK, the kernel's interface flag bits.
IFF_UP == 1
IFF_LOOPBACK == 8

\* flags & bit, for a flag word and a single bit.
BitAnd(flags, bit) == IF (flags \div bit) % 2 = 1 THEN bit ELSE 0

NicNames == {"eth0", "eth1", "lo"}

\* cmp on the names: their place in lexicographic order.
NameRank(n) == CASE n = "eth0" -> 1 [] n = "eth1" -> 2 [] n = "lo" -> 3

\* Where reading a device may raise: nowhere, in get_flags, in
\* get_interfaces_info, in the address accessors, in get_hwaddr.
FailPoints == {"none", "flags", "info", "addr", "hwaddr"}

Devices ==
    [name : {"eth0", "eth1"}, flags : {0, IFF_UP}, fail : FailPoints]
    \cup [name : {"lo"}, flags : {IFF_LOOPBACK, IFF_UP + IFF_LOOPBACK},
          fail : FailPoints]

\* What get_devices() may return: up to MaxDevs devices of distinct names, in
\* any order.
DeviceLists ==
    {ds \in UNION {[1..n -> Devices] : n \in 0..MaxDevs} :
        \A i, j \in 1..Len(ds) : i # j => ds[i].name # ds[j].name}

VARIABLES
    ethtool,    \* the backend: whether get_devices() returns, and its devices
    nics        \* the latest ethtool_list_nics call: [called, interfaces]

nicvars == <<ethtool, nics>>

\* Line 137-138: flags & IFF_UP and not (flags & IFF_LOOPBACK).
IsListed(d) ==
    BitAnd(d.flags, IFF_UP) # 0 /\ ~(BitAnd(d.flags, IFF_LOOPBACK) # 0)

\* _get_ipv4_addresses / _get_ipv6_addresses / get_hwaddr: what the backend
\* reports for the device, opaque here.
_get_ipv4_addresses(d) == <<"inet@" \o d.name>>
_get_ipv6_addresses(d) == <<"inet6@" \o d.name>>
get_hwaddr(d) == "hw@" \o d.name

\* Lines 140-144: the entry appended for a device.
Entry(d) ==
    [name |-> d.name, inet |-> _get_ipv4_addresses(d),
     inet6 |-> _get_ipv6_addresses(d), hw |-> get_hwaddr(d)]

\* Lines 135-146: the loop over the devices from i on, inside the one try
\* that encloses it: an exception ends the loop with what was appended.
RECURSIVE NicLoop(_, _, _)
NicLoop(ds, i, acc) ==
    IF i > Len(ds) THEN acc
    ELSE LET d == ds[i] IN
         IF d.fail = "flags" THEN acc
         ELSE IF ~IsListed(d) THEN NicLoop(ds, i + 1, acc)
         ELSE IF d.fail # "none" THEN acc
         ELSE NicLoop(ds, i + 1, Append(acc, Entry(d)))

\* Line 147: interfaces.sort by cmp of the names (an insertion sort here).
RECURSIVE InsertByName(_, _)
InsertByName(sorted, x) ==
    IF sorted = <<>> THEN <<x>>
    ELSE IF NameRank(x.name) < NameRank(Head(sorted).name)
         THEN <<x>> \o sorted
         ELSE <<Head(sorted)>> \o InsertByName(Tail(sorted), x)

RECURSIVE SortByName(_)
SortByName(s) ==
    IF s = <<>> THEN <<>>
    ELSE InsertByName(SortByName(SubSeq(s, 1, Len(s) - 1)), s[Len(s)])

\* ethtool_list_nics.
ethtool_list_nics(et) ==
    IF ~et.listable THEN <<>>
    ELSE SortByName(NicLoop(et.devices, 1, <<>>))

EthtoolListNics ==
    /\ ~nics.called
    /\ nics' = [called |-> TRUE, interfaces |-> ethtool_list_nics(ethtool)]
    /\ UNCHANGED ethtool

InitNic ==
    /\ ethtool \in [listable : BOOLEAN, devices : DeviceLists]
    /\ nics = [called |-> FALSE, interfaces |-> <<>>]

\* Reading the device raises in the course of ethtool_list_nics.
ReadFails(d) == d.fail = "flags" \/ (d.fail # "none" /\ IsListed(d))

\* The names in s, in order.
Names(s) == [i \in 1..Len(s) |-> s[i].name]

\* The sequence of the names in S, ascending.
Ascending(S) ==
    CHOOSE s \in [1..Cardinality(S) -> S] :
        \A i, j \in 1..Cardinality(S) :
            i < j => NameRank(s[i]) < NameRank(s[j])

\* C5: when reading one interface fails, the result still holds every other
\* administratively-up non-loopback interface, ascending by name, those
\* after the failing one in the device list included.
C5_OnlyFailingNicOmitted ==
    (/\ nics.called
     /\ ethtool.listable
     /\ Cardinality({i \in 1..Len(ethtool.devices) :
                       ReadFails(ethtool.devices[i])}) = 1)
    => Names(nics.interfaces) =
         Ascending({ethtool.devices[i].name :
                      i \in {j \in 1..Len(ethtool.devices) :
                               /\ IsListed(ethtool.devices[j])
                               /\ ~ReadFails(ethtool.devices[j])}})

\* ------------------------------------------------------------------ PkgMgr
MaxProviders == 2

\* pkg.current_state: apt_pkg.CURSTATE_INSTALLED or another state.
INSTALLED_STATE == "installed"
PkgStates == {INSTALLED_STATE, "not-installed"}
Versions == {"1.0", "2.0"}

\* An entry of provides_list: the providing version's parent package, with
\* its state and the version string of its current version.
Providers == [current_state : PkgStates, ver_str : Versions]

ProviderLists == UNION {[1..n -> Providers] : n \in 0..MaxProviders}

\* A package of the cache; a name the cache does not hold has none.
Packages ==
    [in_cache : {TRUE}, current_state : PkgStates, ver_str : Versions,
     provides_list : ProviderLists]
    \cup {[in_cache |-> FALSE, current_state |-> "not-installed",
           ver_str |-> "1.0", provides_list |-> <<>>]}

AppNames == {"editor", "mta"}

\* app_list.split(): the requested names.
AppLists == {<<"editor">>, <<"mta">>, <<"editor", "mta">>, <<>>}

VARIABLES
    cache,      \* apt_pkg.Cache(): the package of each name
    app_list,   \* the requested names
    apps        \* the latest apt_list_packages call: [called, apps]

aptvars == <<cache, app_list, apps>>

\* "%s-%s" % (name, version).
Format(name, ver) == name \o "-" \o ver

\* Lines 66-69: the loop over provides_list from i on.
RECURSIVE ProvidesLoop(_, _, _, _)
ProvidesLoop(app, provides_list, i, acc) ==
    IF i > Len(provides_list) THEN acc
    ELSE ProvidesLoop(app, provides_list, i + 1,
           IF provides_list[i].current_state = INSTALLED_STATE
           THEN acc \cup {Format(app, provides_list[i].ver_str)}
           ELSE acc)

\* Lines 57-69: the loop over the requested names from i on.
RECURSIVE AptLoop(_, _, _, _)
AptLoop(names, c, i, acc) ==
    IF i > Len(names) THEN acc
    ELSE LET app == names[i]
             pkg == c[app]
         IN  AptLoop(names, c, i + 1,
               IF ~pkg.in_cache THEN acc
               ELSE IF pkg.current_state = INSTALLED_STATE
                    THEN acc \cup {Format(app, pkg.ver_str)}
               ELSE IF Len(pkg.provides_list) > 0
                    THEN ProvidesLoop(app, pkg.provides_list, 1, acc)
               ELSE acc)

\* apt_list_packages.
apt_list_packages(names, c) == AptLoop(names, c, 1, {})

AptListPackages ==
    /\ ~apps.called
    /\ apps' = [called |-> TRUE, apps |-> apt_list_packages(app_list, cache)]
    /\ UNCHANGED <<cache, app_list>>

InitApt ==
    /\ cache \in [AppNames -> Packages]
    /\ app_list \in AppLists
    /\ apps = [called |-> FALSE, apps |-> {}]

\* The requested name is in the cache, not itself installed, and provided.
IsVirtual(pkg) ==
    /\ pkg.in_cache
    /\ pkg.current_state # INSTALLED_STATE
    /\ Len(pkg.provides_list) > 0

\* The providers of the package that are installed, by place in the list.
InstalledAt(pkg) ==
    {i \in 1..Len(pkg.provides_list) :
        pkg.provides_list[i].current_state = INSTALLED_STATE}

\* The record of the first installed provider; none when none is installed.
FirstProviderRecord(app, pkg) ==
    IF InstalledAt(pkg) = {} THEN {}
    ELSE LET first == CHOOSE i \in InstalledAt(pkg) :
                        \A j \in InstalledAt(pkg) : i <= j
         IN  {Format(app, pkg.provides_list[first].ver_str)}

\* C6: for a requested virtual name, apt_list_packages adds exactly the one
\* record name-version of the first installed provider in list order (none
\* when no provider is installed), however many providers are installed.
C6_FirstInstalledProviderOnly ==
    apps.called =>
      \A i \in 1..Len(app_list) :
        IsVirtual(cache[app_list[i]]) =>
          {r \in apps.apps : \E v \in Versions : r = Format(app_list[i], v)}
            = FirstProviderRecord(app_list[i], cache[app_list[i]])

\* ----------------------------------------------------- CommandHandlerLinux
MaxTimeout == 130

Timeouts == 0..MaxTimeout

\* What subprocess.call meets: the process exits 0, exits nonzero, or the
\* executable cannot be started (OSError).
Launches == {"exit0", "nonzero", "oserror"}

VARIABLES
    command     \* the latest command: [name, timeout, argv, result]

\* subprocess.call(cmd): the exit status is returned (and dropped by the
\* caller); an executable that cannot be started raises.
subprocess_call(launch) == IF launch = "oserror" THEN "raised" ELSE "returned"

\* A delay that rounds down to whole minutes.
DelayRoundedDown(timeout) == timeout \div 60

\* Line 170: delay = (int(timeout) + 59) / 60, integer division.
Delay(timeout) == (timeout + 59) \div 60

\* Lines 171-177: the argument vector of shutdown.
ShutdownArgv(timeout, msg, reboot) ==
    <<"/usr/share/ovirt-guest-agent/ovirt-shutdown",
      IF reboot THEN "-r" ELSE "-h",
      "+" \o ToString(Delay(timeout)),
      "\"" \o msg \o "\"">>

lock_screen(launch) ==
    command' = [name |-> "lock_screen", timeout |-> 0,
                argv |-> <<"/usr/share/ovirt-guest-agent/ovirt-locksession">>,
                result |-> subprocess_call(launch)]

\* login forwards the credentials to the credential server.
login ==
    command' = [name |-> "login", timeout |-> 0, argv |-> <<>>,
                result |-> "returned"]

logoff ==
    command' = [name |-> "logoff", timeout |-> 0, argv |-> <<>>,
                result |-> "returned"]

shutdown(timeout, msg, reboot, launch) ==
    command' = [name |-> "shutdown", timeout |-> timeout,
                argv |-> ShutdownArgv(timeout, msg, reboot),
                result |-> subprocess_call(launch)]

hibernate(state, launch) ==
    command' = [name |-> "hibernate", timeout |-> 0,
                argv |-> <<"/usr/share/ovirt-guest-agent/ovirt-hibernate",
                           state>>,
                result |-> subprocess_call(launch)]

set_number_of_cpus ==
    command' = [name |-> "set_number_of_cpus", timeout |-> 0, argv |-> <<>>,
                result |-> "returned"]

InitCmd ==
    command = [name |-> "none", timeout |-> 0, argv |-> <<>>,
               result |-> "returned"]

\* C7: a launch failure of lock_screen, shutdown or hibernate (the executable
\* cannot be started, or exits nonzero) is not propagated: the command
\* returns normally.
C7_LaunchFailureNotPropagated ==
    command.name \in {"lock_screen", "shutdown", "hibernate"}
        => command.result = "returned"

\* ceil(timeout / 60): the least d with 60 * d >= timeout.
CeilMinutes(timeout) ==
    CHOOSE d \in 0..timeout : 60 * d >= timeout /\ 60 * (d - 1) < timeout

\* C8: for every integer timeout >= 0, shutdown passes "+d" with
\* d = ceil(timeout / 60) to the shutdown utility.
C8_DelayIsCeilMinutes ==
    command.name = "shutdown"
        => command.argv[3] = "+" \o ToString(CeilMinutes(command.timeout))

\* shutdown(61) has passed "+2".
C8_Witness ==
    /\ command.name = "shutdown"
    /\ command.timeout = 61
    /\ command.argv[3] = "+2"

\* ------------------------------------------- LinuxDataRetriver accessors
VARIABLES
    query       \* the latest accessor call: [name, result, value]

Returned(n, v) == [name |-> n, result |-> "returned", value |-> v]
Raised(n) == [name |-> n, result |-> "raised", value |-> <<>>]

\* getAllNetworkInterfaces: list_nics is ethtool_list_nics, or lambda: []
\* when NicMgr could not be built.
getAllNetworkInterfaces(nicmgr, et) ==
    Returned("getAllNetworkInterfaces",
             IF nicmgr THEN ethtool_list_nics(et) ELSE <<>>)

\* The backend answers the accessor is tried on: at most one device.
QueryEthtools ==
    [listable : BOOLEAN, devices : {<<>>} \cup {<<d>> : d \in Devices}]

\* A backend of PkgMgr: not imported, answering with its records, or raising
\* when called.
Backends ==
    [state : {"absent", "fails"}, records : {{}}]
    \cup [state : {"present"}, records : {{}, {"kernel-3.10-1"}}]

\* list_pkgs: the backends that are present are called in turn, outside any
\* try; [raised, apps].
list_pkgs(rpm, apt_pkg) ==
    IF rpm.state = "fails" \/ apt_pkg.state = "fails"
    THEN [raised |-> TRUE, apps |-> {}]
    ELSE [raised |-> FALSE,
          apps |-> (IF rpm.state = "present" THEN rpm.records ELSE {})
                   \cup (IF apt_pkg.state = "present"
                         THEN apt_pkg.records ELSE {})]

getApplications(rpm, apt_pkg) ==
    LET r == list_pkgs(rpm, apt_pkg)
    IN  IF r.raised THEN Raised("getApplications")
        ELSE Returned("getApplications", r.apps)

\* The loop of getAvailableRAM over the lines from i on: [raised, free].
RECURSIVE AvailableLoop(_, _, _)
AvailableLoop(ls, i, free) ==
    IF i > Len(ls) THEN [raised |-> FALSE, free |-> free]
    ELSE IF ls[i].ntok < 2 THEN [raised |-> TRUE, free |-> free]
    ELSE IF ls[i].key \notin FreeKeys THEN AvailableLoop(ls, i + 1, free)
    ELSE IF ls[i].value = None THEN [raised |-> TRUE, free |-> free]
    ELSE AvailableLoop(ls, i + 1, free + Val(ls[i].value))

\* getAvailableRAM: open and the parsing stand outside any try.
getAvailableRAM(file) ==
    IF ~file.readable THEN Raised("getAvailableRAM")
    ELSE LET r == AvailableLoop(file.lines, 1, 0)
         IN  IF r.raised THEN Raised("getAvailableRAM")
             ELSE Returned("getAvailableRAM", ToString(r.free \div 1024))

\* What os.popen(...).read().split() yields: OSError when no process can be
\* made, else the names printed (none when the utility cannot be run).
Popens ==
    [raises : {TRUE}, users : {<<>>}]
    \cup [raises : {FALSE}, users : {<<>>, <<"alice">>, <<"alice", "bob">>}]

\* ' '.join(words).
RECURSIVE Join(_)
Join(words) ==
    IF words = <<>> THEN ""
    ELSE IF Len(words) = 1 THEN words[1]
    ELSE words[1] \o " " \o Join(Tail(words))

\* getUsers: the whole of it stands in a try.
getUsers(popen) ==
    Returned("getUsers", IF popen.raises THEN "" ELSE Join(popen.users))

\* getActiveUser: os.popen stands outside the try, users[0] inside.
getActiveUser(popen) ==
    IF popen.raises THEN Raised("getActiveUser")
    ELSE Returned("getActiveUser",
                  IF popen.users = <<>> THEN "None" ELSE popen.users[1])

\* A line of /proc/mounts: its tokens and what os.statvfs answers for the
\* path (None when it raises).
Mount(device, path, fs, st) ==
    [ntok |-> 3, device |-> device, path |-> path, fs |-> fs, statvfs |-> st]
Statvfs(bsize, blocks, bfree) ==
    Some([f_bsize |-> bsize, f_blocks |-> blocks, f_bfree |-> bfree])
BadMount == [ntok |-> 2, device |-> "none", path |-> "/x", fs |-> "",
             statvfs |-> None]

MountTable ==
    <<Mount("/dev/sda1", "/", "ext4", Statvfs(4, 10, 3)),
      Mount("proc", "/proc", "proc", Statvfs(4, 0, 0)),
      Mount("/dev/sdb1", "/mnt/my\\040disk", "ext4", Statvfs(2, 8, 8))>>

\* The /proc/mounts a call may find: whole; with a line of two tokens; with
\* a path os.statvfs rejects; or not to be opened.
MountFiles ==
    {File(MountTable), File(InsertAt(MountTable, 2, BadMount)),
     File([MountTable EXCEPT ![1].statvfs = None]), Unreadable}

IgnoredFs == {{}, {"proc"}}

\* path.decode("string-escape") on the paths above.
Unescape(path) ==
    IF path = "/mnt/my\\040disk" THEN "/mnt/my disk" ELSE path

\* Lines 252-264: the loop over the mounts from i on, a try around each.
RECURSIVE MountsLoop(_, _, _, _)
MountsLoop(ls, ignored_fs, i, usages) ==
    IF i > Len(ls) THEN usages
    ELSE LET l == ls[i] IN
         MountsLoop(ls, ignored_fs, i + 1,
           IF l.ntok < 3 \/ l.fs \in ignored_fs \/ l.statvfs = None
           THEN usages
           ELSE LET st == Val(l.statvfs)
                    total == st.f_bsize * st.f_blocks
                IN  Append(usages,
                      [path |-> Unescape(l.path), fs |-> l.fs,
                       total |-> total,
                       used |-> total - st.f_bsize * st.f_bfree]))

\* getDisksUsage: when open raises, the handler reads mounts, which was
\* never bound (line 268), and that raises out of the accessor.
getDisksUsage(file, ignored_fs) ==
    IF ~file.readable THEN Raised("getDisksUsage")
    ELSE Returned("getDisksUsage", MountsLoop(file.lines, ignored_fs, 1, <<>>))

InitQuery == query = Returned("none", <<>>)

\* C9: every query accessor returns a value and never raises, whichever of
\* its sources fails.
C9_AccessorsNeverRaise == query.result = "returned"

\* ---------------------------------------------------- memory statistics
\* C1: the first getMemoryStats call to read /proc/vmstat returns rate 0 for
\* each of the four tracked counters, whatever the raw counter values and
\* whatever the time elapsed since construction (zero and negative too).
C1_FirstSampleRatesZero ==
    outcome.first => \A f \in Fields : memStats[f] = 0

\* The first read has stored non-zero raw values for all four counters.
C1_Witness ==
    /\ outcome.first
    /\ outcome.vmstat = "ok"
    /\ \A f \in Fields : Val(outcome.sample)[f] > 0

\* C2: of two consecutive successful samples, dt > 0 ticks apart, the second
\* returns floor(dc / dt seconds) for each counter that rose by dc >= 0.
C2_RateIsFloor ==
    [][(/\ calls' = calls + 1
        /\ outcome.meminfo = "ok" /\ outcome.vmstat = "ok"
        /\ outcome'.meminfo = "ok" /\ outcome'.vmstat = "ok"
        /\ Val(outcome'.t) > Val(outcome.t))
       => \A f \in Fields :
            LET dc == Val(outcome'.sample)[f] - Val(outcome.sample)[f]
                dt == Val(outcome'.t) - Val(outcome.t)
            IN  dc >= 0 => memStats'[f] = (dc * TicksPerSecond) \div dt]_memvars

\* The second of two successful samples, two ticks after the first, with
\* quotients that are no integers: 3/2 reported as 1, 1/2 as 0.
C2_Witness ==
    /\ calls = 2
    /\ outcome.vmstat = "ok"
    /\ vmstat.prev["swap_out"] = Some(0) /\ vmstat.cur["swap_out"] = Some(1)
    /\ vmstat.prev["pageflt"] = Some(0) /\ vmstat.cur["pageflt"] = Some(3)
    /\ memStats["swap_out"] = 0
    /\ memStats["pageflt"] = 1

\* C3: a call that finds interval = timestamp_now - previous_timestamp <= 0
\* attempts no division by zero, returns for every counter the rate the
\* previous sample returned, and changes no counter's stored value.
C3_NoUpdateTick ==
    [][(/\ calls' = calls + 1
        /\ outcome'.vmstat # "skipped"
        /\ Val(outcome'.t) - Val(vmstat.timestamp_prev) <= 0)
       => /\ outcome'.vmstat # "zerodiv"
          /\ \A f \in Fields : memStats'[f] = memStats[f]
          /\ vmstat'.prev = vmstat.prev
          /\ vmstat'.cur = vmstat.cur]_memvars

\* C4: when /proc/meminfo or /proc/vmstat cannot be opened, the snapshot
\* returned is, field for field, the one returned by the latest call that
\* read both (all-zero when there was none).
C4_FailureReturnsLastGood ==
    (outcome.meminfo = "open" \/ outcome.vmstat = "open")
        => memStats = lastGood

\* C10: after any sequence of calls, timestamp_prev is the clock reading at
\* which each stored <field>_cur was read, so that the next rate divides a
\* counter's increase by the time over which it rose.
C10_TimestampMatchesReadings ==
    \A f \in Fields :
        vmstat.cur[f] # None => readAt[f] = vmstat.timestamp_prev

\* --------------------------------------------------------- specifications
vars == <<memvars, nicvars, aptvars, command, query>>

\* The parts a specification leaves alone, as construction leaves them.
QuietMem ==
    /\ vmstat = _init_vmstat(0)
    /\ outcome = [meminfo |-> "none", vmstat |-> "none", t |-> Some(0),
                  stored |-> {}, sample |-> None, first |-> FALSE]
    /\ memStats = InitMemStats
    /\ opened = FALSE
    /\ readAt = [f \in Fields |-> None]
    /\ lastGood = InitMemStats
    /\ calls = 0
QuietNic ==
    /\ ethtool = [listable |-> TRUE, devices |-> <<>>]
    /\ nics = [called |-> FALSE, interfaces |-> <<>>]
QuietApt ==
    /\ cache = [n \in AppNames |->
                  [in_cache |-> FALSE, current_state |-> "not-installed",
                   ver_str |-> "1.0", provides_list |-> <<>>]]
    /\ app_list = <<>>
    /\ apps = [called |-> FALSE, apps |-> {}]

\* The memory statistics sampler.
MemCall ==
    /\ GetMemoryStats
    /\ UNCHANGED <<nicvars, aptvars, command, query>>

MemInit == InitMem /\ QuietNic /\ QuietApt /\ InitCmd /\ InitQuery

SpecMem == MemInit /\ [][MemCall]_vars

\* The interface listing, over every backend answer.
NicCall ==
    /\ EthtoolListNics
    /\ UNCHANGED <<memvars, aptvars, command, query>>

NicInit == InitNic /\ QuietMem /\ QuietApt /\ InitCmd /\ InitQuery

SpecNic == NicInit /\ [][NicCall]_vars

\* The apt package listing, over every cache.
AptCall ==
    /\ AptListPackages
    /\ UNCHANGED <<memvars, nicvars, command, query>>

AptInit == InitApt /\ QuietMem /\ QuietNic /\ InitCmd /\ InitQuery

SpecApt == AptInit /\ [][AptCall]_vars

\* The commands, in any order.
LockScreen ==
    /\ \E launch \in Launches : lock_screen(launch)
    /\ UNCHANGED <<memvars, nicvars, aptvars, query>>
Login ==
    /\ login
    /\ UNCHANGED <<memvars, nicvars, aptvars, query>>
Logoff ==
    /\ logoff
    /\ UNCHANGED <<memvars, nicvars, aptvars, query>>
Shutdown ==
    /\ \E timeout \in Timeouts, reboot \in BOOLEAN, launch \in Launches :
          shutdown(timeout, "bye", reboot, launch)
    /\ UNCHANGED <<memvars, nicvars, aptvars, query>>
Hibernate ==
    /\ \E state \in {"disk", "mem"}, launch \in Launches :
          hibernate(state, launch)
    /\ UNCHANGED <<memvars, nicvars, aptvars, query>>
SetNumberOfCpus ==
    /\ set_number_of_cpus
    /\ UNCHANGED <<memvars, nicvars, aptvars, query>>

NextCmd ==
    \/ LockScreen \/ Login \/ Logoff \/ Shutdown \/ Hibernate
    \/ SetNumberOfCpus

CmdInit == InitCmd /\ QuietMem /\ QuietNic /\ QuietApt /\ InitQuery

SpecCmd == CmdInit /\ [][NextCmd]_vars

\* The accessors of LinuxDataRetriver, in any order.
GetAllNetworkInterfaces ==
    /\ \E nicmgr \in BOOLEAN, et \in QueryEthtools :
          query' = getAllNetworkInterfaces(nicmgr, et)
    /\ UNCHANGED <<memvars, nicvars, aptvars, command>>
GetApplications ==
    /\ \E rpm \in Backends, apt_pkg \in Backends :
          query' = getApplications(rpm, apt_pkg)
    /\ UNCHANGED <<memvars, nicvars, aptvars, command>>
GetAvailableRAM ==
    /\ \E file \in MeminfoFiles : query' = getAvailableRAM(file)
    /\ UNCHANGED <<memvars, nicvars, aptvars, command>>
GetUsers ==
    /\ \E popen \in Popens : query' = getUsers(popen)
    /\ UNCHANGED <<memvars, nicvars, aptvars, command>>
GetActiveUser ==
    /\ \E popen \in Popens : query' = getActiveUser(popen)
    /\ UNCHANGED <<memvars, nicvars, aptvars, command>>
GetDisksUsage ==
    /\ \E file \in MountFiles, ignored_fs \in IgnoredFs :
          query' = getDisksUsage(file, ignored_fs)
    /\ UNCHANGED <<memvars, nicvars, aptvars, command>>
\* getMemoryStats, once on the retriever as constructed (SpecMem follows the
\* sequences of samples).
GetMemoryStatsQuery ==
    /\ calls = 0
    /\ GetMemoryStats
    /\ query' = Returned("getMemoryStats", memStats')
    /\ UNCHANGED <<nicvars, aptvars, command>>

NextQuery ==
    \/ GetAllNetworkInterfaces \/ GetApplications \/ GetAvailableRAM
    \/ GetUsers \/ GetActiveUser \/ GetDisksUsage \/ GetMemoryStatsQuery

QueryInit == InitQuery /\ InitMem /\ QuietNic /\ QuietApt /\ InitCmd

SpecQuery == QueryInit /\ [][NextQuery]_vars

=============================================================================
